---- MODULE Spec2Model ----
(***************************************************************************)
(* Model of the conditional-logic tools of the Tally MCP server            *)
(* (src/src/index.ts): validate_form_logic_flow,                           *)
(* validate_multiple_choice_logic, create_conditional_logic_block and      *)
(* create_dynamic_question_sets.  Each tool handler is a synchronous       *)
(* function of its arguments, so a behaviour is one request: Init draws    *)
(* the request from bounded sets and the handler's action computes the     *)
(* response exactly as the code does.                                      *)
(***************************************************************************)
EXTENDS Integers, Sequences, FiniteSets, TLC

VARIABLES pc, tool, blocks, triggerQuestion, conditionalLogic, args, clock,
          issued, result, calls, frames

vars == <<pc, tool, blocks, triggerQuestion, conditionalLogic, args, clock,
          issued, result, calls, frames>>

(***************************************************************************)
(* Bounds of the enumerated requests.                                      *)
(***************************************************************************)
MaxBlocks == 2
MaxConds == 2
MaxChoiceLogic == 2
MaxChoiceConds == 2
MaxSel == 2

(***************************************************************************)
(* JavaScript values.  A property that is undefined, null or the empty     *)
(* string is falsy; every test the handlers make on such a property is a   *)
(* truthiness test, so one sentinel stands for all three.                  *)
(***************************************************************************)
Absent == "<absent>"

Truthy(v) == v # Absent

\* An id that no block of the array carries (a dangling reference).
Ghost == "ghost"

BlockIds == <<"b1", "b2", "b3", "b4", "b5">>

LOGIC_JUMP == "LOGIC_JUMP"
INPUT_TEXT == "INPUT_TEXT"
INPUT_MULTIPLE_CHOICE == "INPUT_MULTIPLE_CHOICE"
INPUT_CHECKBOXES == "INPUT_CHECKBOXES"

\* The block types of the model that start with 'INPUT_'.
InputTypes ==
  {INPUT_TEXT, INPUT_MULTIPLE_CHOICE, INPUT_CHECKBOXES, "INPUT_DROPDOWN"}

SeqsUpTo(S, n) == UNION {[1..k -> S] : k \in 0..n}

(***************************************************************************)
(* validate_form_logic_flow: the request.                                  *)
(***************************************************************************)
\* A condition of a LOGIC_JUMP payload, as the validator reads it.
FlowCondition(op, val, to) == [operator |-> op, value |-> val, jumpTo |-> to]

NoPayload == [triggerField |-> Absent, hasConditions |-> FALSE,
              conditions |-> <<>>, defaultJumpTo |-> Absent]

FlowBlock(u, t, hp, p) == [uuid |-> u, type |-> t, hasPayload |-> hp, payload |-> p]


\* The ids of an array of n blocks, up to renaming: f[i] is the position of
\* the first block that carries the id of block i, so block i has a new id
\* (f[i] = i) or repeats an earlier one (the tool schema does not forbid it).
UuidPatterns(n) ==
  {f \in [1..n -> 1..n] : \A i \in 1..n : f[i] <= i /\ f[f[i]] = f[i]}

FlowRefs(n) == {BlockIds[i] : i \in 1..n} \cup {Ghost, Absent}

FlowTriggers == {Absent, Ghost, BlockIds[1]}

\* The (operator, value) shapes of a condition; the value is optional.
CondKinds == {<<"equals", "A">>, <<"equals", Absent>>, <<"is_empty", Absent>>}

\* The payloads of a LOGIC_JUMP block with c conditions (c = -1: the payload
\* has no conditions property), all conditions of kind k.
LogicPayloads(n, c, k) ==
  {[triggerField |-> t, hasConditions |-> c >= 0, conditions |-> cs,
    defaultJumpTo |-> d] :
     t \in FlowTriggers, d \in FlowRefs(n),
     cs \in [1..(IF c < 0 THEN 0 ELSE c) ->
               {FlowCondition(k[1], k[2], to) : to \in FlowRefs(n)}]}

\* Block i of an array of n blocks: an input block, a LOGIC_JUMP block without
\* payload (cnt[i] = -2) or a LOGIC_JUMP block with cnt[i] conditions.
FlowBlockChoices(n, i, u, cnt, k) ==
  IF cnt[i] = -3 THEN {FlowBlock(BlockIds[u[i]], INPUT_TEXT, TRUE, NoPayload)}
  ELSE IF cnt[i] = -2 THEN {FlowBlock(BlockIds[u[i]], LOGIC_JUMP, FALSE, NoPayload)}
  ELSE {FlowBlock(BlockIds[u[i]], LOGIC_JUMP, TRUE, p) : p \in LogicPayloads(n, cnt[i], k)}

RECURSIVE SumFrom(_, _)
SumFrom(f, i) ==
  IF i > Len(f) THEN 0 ELSE (IF f[i] > 0 THEN f[i] ELSE 0) + SumFrom(f, i + 1)

\* The shapes of an array of n blocks: per block -3 (an input block), -2 (a
\* LOGIC_JUMP block without payload), -1 (a payload without conditions) or its
\* number of conditions, at most MaxConds conditions in all.
FlowShapes(n) == {c \in [1..n -> -3..MaxConds] : SumFrom(c, 1) <= MaxConds}

RECURSIVE FlowArraysFrom(_, _, _, _, _)
FlowArraysFrom(n, i, u, cnt, k) ==
  IF i > n THEN {<<>>}
  ELSE {<<b>> \o rest : b \in FlowBlockChoices(n, i, u, cnt, k),
                        rest \in FlowArraysFrom(n, i + 1, u, cnt, k)}

\* Every array the model submits: up to MaxBlocks blocks that carry at most
\* MaxConds conditions in all, the conditions of one array being of one kind.
IsFlowRequest(bs) ==
  \E n \in 0..MaxBlocks :
    \E u \in UuidPatterns(n), cnt \in FlowShapes(n) :
      \E k \in (IF SumFrom(cnt, 1) = 0 THEN {<<"equals", "A">>} ELSE CondKinds) :
        bs \in FlowArraysFrom(n, 1, u, cnt, k)

(***************************************************************************)
(* validate_form_logic_flow: the handler.                                  *)
(***************************************************************************)
\* A faulty variant of BlockMap: the loop stops one block early.
BlockMap_SkipLast(bs) ==
  [u \in {bs[i].uuid : i \in 1..(Len(bs) - 1)} |->
     bs[CHOOSE i \in 1..(Len(bs) - 1) :
          bs[i].uuid = u /\ \A j \in (i + 1)..(Len(bs) - 1) : bs[j].uuid # u]]

\* blockMap.set(block.uuid, block) for each block in array order: a later
\* block replaces an earlier block of the same uuid.
BlockMap(bs) ==
  [u \in {bs[i].uuid : i \in 1..Len(bs)} |->
     bs[CHOOSE i \in 1..Len(bs) :
          bs[i].uuid = u /\ \A j \in (i + 1)..Len(bs) : bs[j].uuid # u]]

BlockMapHas(bm, u) == u \in DOMAIN bm

IsLogicJump(b) == b.type = LOGIC_JUMP

LogicBlocksOf(bs) == SelectSeq(bs, IsLogicJump)

\* else if (block.type.startsWith('INPUT_'))
IsInputBlock(b) == ~IsLogicJump(b) /\ b.type \in InputTypes

InputBlocksOf(bs) == SelectSeq(bs, IsInputBlock)

\* Reading payload.triggerField of a LOGIC_JUMP block without payload throws
\* a TypeError, which the handler's catch turns into an error response.
FlowThrows(bs) == \E i \in 1..Len(bs) : IsLogicJump(bs[i]) /\ ~bs[i].hasPayload

Issue(k, b, r) == [kind |-> k, block |-> b, ref |-> r]

Warning(k, b) == [kind |-> k, block |-> b]

RECURSIVE ConditionIssues(_, _, _, _)
ConditionIssues(bm, lb, cs, j) ==
  IF j > Len(cs) THEN <<>>
  ELSE (IF Truthy(cs[j].jumpTo) /\ ~BlockMapHas(bm, cs[j].jumpTo)
          THEN <<Issue("jump", lb.uuid, cs[j].jumpTo)>> ELSE <<>>)
       \o ConditionIssues(bm, lb, cs, j + 1)

\* The three checks made on one logic block, in the order of the code.
LogicBlockIssues(bm, lb) ==
  LET payload == lb.payload IN
    (IF Truthy(payload.triggerField) /\ ~BlockMapHas(bm, payload.triggerField)
       THEN <<Issue("trigger", lb.uuid, payload.triggerField)>> ELSE <<>>)
    \o (IF payload.hasConditions
          THEN ConditionIssues(bm, lb, payload.conditions, 1) ELSE <<>>)
    \o (IF Truthy(payload.defaultJumpTo) /\ ~BlockMapHas(bm, payload.defaultJumpTo)
          THEN <<Issue("default", lb.uuid, payload.defaultJumpTo)>> ELSE <<>>)

RECURSIVE FlowIssues(_, _, _)
FlowIssues(bm, lbs, i) ==
  IF i > Len(lbs) THEN <<>>
  ELSE LogicBlockIssues(bm, lbs[i]) \o FlowIssues(bm, lbs, i + 1)

\* traverseBlocks: the visited set is shared by the whole traversal, so the
\* operator returns the set as it stands after the call.
RECURSIVE traverseBlocks(_, _, _)
RECURSIVE traverseConditions(_, _, _, _)
traverseBlocks(bm, blockUuid, visited) ==
  IF blockUuid \in visited \/ ~BlockMapHas(bm, blockUuid) THEN visited
  ELSE LET v1 == visited \cup {blockUuid}
           block == bm[blockUuid]
       IN IF IsLogicJump(block) /\ block.payload.hasConditions
            THEN LET v2 == traverseConditions(bm, block.payload.conditions, 1, v1)
                 IN IF Truthy(block.payload.defaultJumpTo)
                      THEN traverseBlocks(bm, block.payload.defaultJumpTo, v2)
                      ELSE v2
            ELSE v1

traverseConditions(bm, cs, j, visited) ==
  IF j > Len(cs) THEN visited
  ELSE traverseConditions(bm, cs, j + 1,
         IF Truthy(cs[j].jumpTo) THEN traverseBlocks(bm, cs[j].jumpTo, visited)
         ELSE visited)

\* A faulty variant of ReachableBlocks: the start block is not recorded.
ReachableBlocks_WithoutStart(bs) ==
  IF Len(bs) = 0 THEN {}
  ELSE traverseBlocks(BlockMap(bs), bs[1].uuid, {}) \ {bs[1].uuid}

\* reachableBlocks after traverseBlocks(startBlock.uuid), empty for no blocks.
ReachableBlocks(bs) ==
  IF Len(bs) = 0 THEN {} ELSE traverseBlocks(BlockMap(bs), bs[1].uuid, {})

\* 'block !== startBlock' compares objects: only the first element is exempt.
RECURSIVE UnreachableWarnings(_, _, _)
UnreachableWarnings(bs, reach, i) ==
  IF i > Len(bs) THEN <<>>
  ELSE (IF bs[i].uuid \notin reach /\ i # 1
          THEN <<Warning("unreachable", bs[i].uuid)>> ELSE <<>>)
       \o UnreachableWarnings(bs, reach, i + 1)

\* checkCircular: returns whether a uuid was met twice, and the visited set
\* of this root as it stands after the call.
RECURSIVE checkCircular(_, _, _)
RECURSIVE checkCircularConditions(_, _, _, _)
checkCircular(bm, blockUuid, visited) ==
  IF blockUuid \in visited THEN [found |-> TRUE, visited |-> visited]
  ELSE LET v1 == visited \cup {blockUuid} IN
       IF BlockMapHas(bm, blockUuid) /\ IsLogicJump(bm[blockUuid])
          /\ bm[blockUuid].payload.hasConditions
         THEN checkCircularConditions(bm, bm[blockUuid].payload.conditions, 1, v1)
         ELSE [found |-> FALSE, visited |-> v1]

checkCircularConditions(bm, cs, j, visited) ==
  IF j > Len(cs) THEN [found |-> FALSE, visited |-> visited]
  ELSE IF ~Truthy(cs[j].jumpTo)
         THEN checkCircularConditions(bm, cs, j + 1, visited)
         ELSE LET r == checkCircular(bm, cs[j].jumpTo, visited) IN
              IF r.found THEN r
              ELSE checkCircularConditions(bm, cs, j + 1, r.visited)

\* The ids on which traverseBlocks runs visited.add, in the order of the calls.
RECURSIVE traverseBlocksLog(_, _, _)
RECURSIVE traverseConditionsLog(_, _, _, _)
traverseBlocksLog(bm, blockUuid, added) ==
  IF (\E k \in 1..Len(added) : added[k] = blockUuid) \/ ~BlockMapHas(bm, blockUuid)
    THEN added
  ELSE LET a1 == Append(added, blockUuid)
           block == bm[blockUuid]
       IN IF IsLogicJump(block) /\ block.payload.hasConditions
            THEN LET a2 == traverseConditionsLog(bm, block.payload.conditions, 1, a1)
                 IN IF Truthy(block.payload.defaultJumpTo)
                      THEN traverseBlocksLog(bm, block.payload.defaultJumpTo, a2)
                      ELSE a2
            ELSE a1

traverseConditionsLog(bm, cs, j, added) ==
  IF j > Len(cs) THEN added
  ELSE traverseConditionsLog(bm, cs, j + 1,
         IF Truthy(cs[j].jumpTo) THEN traverseBlocksLog(bm, cs[j].jumpTo, added)
         ELSE added)

\* The ids on which the checkCircular walk of one root runs visited.add, in
\* the order of the calls, and whether the walk met an id twice.
RECURSIVE checkCircularLog(_, _, _)
RECURSIVE checkCircularConditionsLog(_, _, _, _)
checkCircularLog(bm, blockUuid, added) ==
  IF \E k \in 1..Len(added) : added[k] = blockUuid
    THEN [found |-> TRUE, added |-> added]
  ELSE LET a1 == Append(added, blockUuid) IN
       IF BlockMapHas(bm, blockUuid) /\ IsLogicJump(bm[blockUuid])
          /\ bm[blockUuid].payload.hasConditions
         THEN checkCircularConditionsLog(bm, bm[blockUuid].payload.conditions, 1, a1)
         ELSE [found |-> FALSE, added |-> a1]

checkCircularConditionsLog(bm, cs, j, added) ==
  IF j > Len(cs) THEN [found |-> FALSE, added |-> added]
  ELSE IF ~Truthy(cs[j].jumpTo)
         THEN checkCircularConditionsLog(bm, cs, j + 1, added)
         ELSE LET r == checkCircularLog(bm, cs[j].jumpTo, added) IN
              IF r.found THEN r
              ELSE checkCircularConditionsLog(bm, cs, j + 1, r.added)

\* detectCircularLogic: one walk per logic block, each with a fresh visited set.
RECURSIVE detectCircularLogic(_, _, _)
detectCircularLogic(bm, lbs, i) ==
  IF i > Len(lbs) THEN <<>>
  ELSE (IF checkCircular(bm, lbs[i].uuid, {}).found
          THEN <<Warning("circular", lbs[i].uuid)>> ELSE <<>>)
       \o detectCircularLogic(bm, lbs, i + 1)

\* A faulty variant of StatusOf: one issue is tolerated.
StatusOf_OffByOne(issues) == IF Len(issues) <= 1 THEN "VALID" ELSE "INVALID"

\* status: issues.length === 0 ? 'VALID' : 'INVALID' (both validators).
StatusOf(issues) == IF Len(issues) = 0 THEN "VALID" ELSE "INVALID"

ErrorResponse == [outcome |-> "error", status |-> "none", issues |-> <<>>,
                  warnings |-> <<>>, totalBlocks |-> 0, inputBlocks |-> 0,
                  logicBlocks |-> 0, reachableBlocks |-> 0]

validateFormLogicFlow(bs) ==
  IF FlowThrows(bs) THEN ErrorResponse
  ELSE LET bm == BlockMap(bs)
           lbs == LogicBlocksOf(bs)
           issues == FlowIssues(bm, lbs, 1)
           reach == ReachableBlocks(bs)
           warnings == UnreachableWarnings(bs, reach, 1)
                         \o detectCircularLogic(bm, lbs, 1)
       IN [outcome |-> "report", status |-> StatusOf(issues), issues |-> issues,
           warnings |-> warnings, totalBlocks |-> Len(bs),
           inputBlocks |-> Len(InputBlocksOf(bs)), logicBlocks |-> Len(lbs),
           reachableBlocks |-> Cardinality(reach)]

(***************************************************************************)
(* validate_multiple_choice_logic: the request.                            *)
(***************************************************************************)
TriggerTypes == {INPUT_MULTIPLE_CHOICE, INPUT_CHECKBOXES, INPUT_TEXT}

\* payload.maxSelections: <<>> when the property is absent, <<m>> otherwise.
MaxSelectionsChoices == {<<>>} \cup {<<m>> : m \in 0..MaxSel}

Option(t, v) == [text |-> t, value |-> v]

OptionChoices == {Option("A", Absent), Option("A", "a"), Option("B", "A")}

\* payload.options: absent, or a list of at most MaxOptions options.
MaxOptions == 1

TriggerQuestion(u, t, hp, ms, ho, os) ==
  [uuid |-> u, type |-> t, hasPayload |-> hp, maxSelections |-> ms,
   hasOptions |-> ho, options |-> os]

TriggerQuestions ==
  {TriggerQuestion("b1", t, FALSE, <<>>, FALSE, <<>>) : t \in TriggerTypes}
  \cup {TriggerQuestion("b1", t, TRUE, ms, FALSE, <<>>) :
          t \in TriggerTypes, ms \in MaxSelectionsChoices}
  \cup {TriggerQuestion("b1", t, TRUE, ms, TRUE, os) :
          t \in TriggerTypes, ms \in MaxSelectionsChoices,
          os \in SeqsUpTo(OptionChoices, MaxOptions)}

ChoiceOperators == {"equals", "not_equals", "contains", "is_empty"}

\* A condition as validate_multiple_choice_logic reads it.
ChoiceCondition(op, val, tb) == [operator |-> op, value |-> val, targetBlock |-> tb]

ChoiceConditions ==
  {ChoiceCondition(op, val, tb) :
     op \in ChoiceOperators, val \in {Absent, "A"}, tb \in {Absent, "b2"}}

\* A logic block with c conditions (c = -1: no conditions array).
ChoiceLogicBlocks(c) ==
  {[hasConditions |-> c >= 0, conditions |-> cs] :
     cs \in [1..(IF c < 0 THEN 0 ELSE c) -> ChoiceConditions]}

ChoiceShapes(n) == {c \in [1..n -> -1..MaxChoiceConds] : SumFrom(c, 1) <= MaxChoiceConds}

RECURSIVE ChoiceLogicFrom(_, _, _)
ChoiceLogicFrom(n, i, cnt) ==
  IF i > n THEN {<<>>}
  ELSE {<<b>> \o rest : b \in ChoiceLogicBlocks(cnt[i]),
                        rest \in ChoiceLogicFrom(n, i + 1, cnt)}

\* Every conditionalLogic list the model submits: up to MaxChoiceLogic logic
\* blocks that carry at most MaxChoiceConds conditions in all.
IsChoiceLogic(ls) ==
  \E n \in 0..MaxChoiceLogic :
    \E cnt \in ChoiceShapes(n) : ls \in ChoiceLogicFrom(n, 1, cnt)

(***************************************************************************)
(* validate_multiple_choice_logic: the handler.                            *)
(***************************************************************************)
\* A faulty variant of isMultipleChoice: every input type is accepted.
isMultipleChoice_AnyInput(tq) == tq.type \in InputTypes

isMultipleChoice(tq) == tq.type \in {INPUT_MULTIPLE_CHOICE, INPUT_CHECKBOXES}

\* A faulty variant of MaxSelectionsAboveOne: >= 1 instead of > 1.
MaxSelectionsAboveOne_AtLeastOne(tq) ==
  tq.hasPayload /\ Len(tq.maxSelections) = 1 /\ tq.maxSelections[1] >= 1

\* payload?.maxSelections > 1 is false when the payload or the property is
\* absent (undefined > 1).
MaxSelectionsAboveOne(tq) ==
  tq.hasPayload /\ Len(tq.maxSelections) = 1 /\ tq.maxSelections[1] > 1

\* A faulty variant of allowsMultipleSelections: checkboxes are forgotten.
allowsMultipleSelections_NoCheckboxes(tq) ==
  tq.type = INPUT_MULTIPLE_CHOICE /\ MaxSelectionsAboveOne(tq)

allowsMultipleSelections(tq) ==
  \/ tq.type = INPUT_CHECKBOXES
  \/ (tq.type = INPUT_MULTIPLE_CHOICE /\ MaxSelectionsAboveOne(tq))

\* A faulty variant of singleValueOperators: not_equals is forgotten.
singleValueOperators_EqualsOnly == {"equals"}

singleValueOperators == {"equals", "not_equals"}

noValueOperators == {"is_empty", "is_not_empty"}

ChoiceIssue(k, i, j) == [kind |-> k, block |-> i, condition |-> j]

\* optionValues: opt.value || opt.text for each declared option.
optionValues(tq) ==
  {IF Truthy(tq.options[o].value) THEN tq.options[o].value ELSE tq.options[o].text
     : o \in 1..Len(tq.options)}

\* The issues of condition j of logic block i, in the order of the code.
ChoiceConditionIssues(tq, condition, i, j) ==
  (IF condition.operator = "equals" /\ isMultipleChoice(tq)
        /\ allowsMultipleSelections(tq)
     THEN <<ChoiceIssue("critical_equals", i, j)>> ELSE <<>>)
  \o (IF isMultipleChoice(tq) /\ condition.operator \in singleValueOperators
           /\ allowsMultipleSelections(tq)
        THEN <<ChoiceIssue("incompatible_operator", i, j)>> ELSE <<>>)
  \o (IF ~Truthy(condition.value) /\ condition.operator \notin noValueOperators
        THEN <<ChoiceIssue("missing_value", i, j)>> ELSE <<>>)
  \o (IF ~Truthy(condition.targetBlock)
        THEN <<ChoiceIssue("missing_target", i, j)>> ELSE <<>>)

\* The warnings of condition j of logic block i, in the order of the code.
ChoiceConditionWarnings(tq, condition, i, j) ==
  (IF condition.operator = "equals" /\ isMultipleChoice(tq)
        /\ ~allowsMultipleSelections(tq)
     THEN <<ChoiceIssue("equals_single_select", i, j)>> ELSE <<>>)
  \o (IF Truthy(condition.value) /\ tq.hasPayload /\ tq.hasOptions
           /\ condition.value \notin optionValues(tq)
        THEN <<ChoiceIssue("option_mismatch", i, j)>> ELSE <<>>)

RECURSIVE ChoiceBlockIssues(_, _, _, _)
ChoiceBlockIssues(tq, cs, i, j) ==
  IF j > Len(cs) THEN <<>>
  ELSE ChoiceConditionIssues(tq, cs[j], i, j) \o ChoiceBlockIssues(tq, cs, i, j + 1)

RECURSIVE ChoiceBlockWarnings(_, _, _, _)
ChoiceBlockWarnings(tq, cs, i, j) ==
  IF j > Len(cs) THEN <<>>
  ELSE ChoiceConditionWarnings(tq, cs[j], i, j)
         \o ChoiceBlockWarnings(tq, cs, i, j + 1)

\* A logic block without a conditions array gets one issue and is skipped.
RECURSIVE ChoiceIssues(_, _, _)
ChoiceIssues(tq, ls, i) ==
  IF i > Len(ls) THEN <<>>
  ELSE (IF ~ls[i].hasConditions THEN <<ChoiceIssue("missing_conditions", i, 0)>>
        ELSE ChoiceBlockIssues(tq, ls[i].conditions, i, 1))
       \o ChoiceIssues(tq, ls, i + 1)

RECURSIVE ChoiceWarnings(_, _, _)
ChoiceWarnings(tq, ls, i) ==
  IF i > Len(ls) THEN <<>>
  ELSE (IF ~ls[i].hasConditions THEN <<>>
        ELSE ChoiceBlockWarnings(tq, ls[i].conditions, i, 1))
       \o ChoiceWarnings(tq, ls, i + 1)

RECURSIVE TotalConditions(_, _)
TotalConditions(ls, i) ==
  IF i > Len(ls) THEN 0 ELSE Len(ls[i].conditions) + TotalConditions(ls, i + 1)

validateMultipleChoiceLogic(tq, ls) ==
  LET issues == ChoiceIssues(tq, ls, 1)
      warnings ==
        (IF ~isMultipleChoice(tq) THEN <<ChoiceIssue("not_multiple_choice", 0, 0)>>
         ELSE <<>>) \o ChoiceWarnings(tq, ls, 1)
  IN [outcome |-> "report", status |-> StatusOf(issues), issues |-> issues,
      warnings |-> warnings,
      allowsMultipleSelections |-> allowsMultipleSelections(tq),
      optionCount |-> IF tq.hasPayload /\ tq.hasOptions THEN Len(tq.options) ELSE 0,
      logicBlocks |-> Len(ls), totalConditions |-> TotalConditions(ls, 1)]

(***************************************************************************)
(* create_conditional_logic_block: the request.                            *)
(***************************************************************************)
MaxFactoryConds == 2

\* An operator is absent or one of the schema's operators (one that needs a
\* value and the two that need none).
FactoryOperators == {Absent, "equals", "is_empty", "is_not_empty"}

\* A condition as create_conditional_logic_block reads it.
FactoryCondition(op, val, tb) == [operator |-> op, value |-> val, targetBlock |-> tb]

FactoryConditions ==
  {FactoryCondition(op, val, tb) :
     op \in FactoryOperators, val \in {Absent, "A"}, tb \in {Absent, "b2", "b3"}}

FactoryArgs(tf, cs, dt, lt) ==
  [triggerField |-> tf, conditions |-> cs, defaultTarget |-> dt, logicType |-> lt]

\* Every argument record the model submits to the factory.
FactoryRequests ==
  {FactoryArgs("b1", cs, dt, lt) :
     cs \in SeqsUpTo(FactoryConditions, MaxFactoryConds),
     dt \in {Absent, "b4"}, lt \in {Absent, "skip_logic"}}

\* The arguments of the tools that take no such record.
NoArgs == FactoryArgs(Absent, <<>>, Absent, Absent)

(***************************************************************************)
(* Identifiers.  Date.now() is the millisecond clock, counted from the     *)
(* first request; Math.random().toString(36).substr(2, 9) is a draw from   *)
(* the base-36 suffixes, of which the model keeps two.                     *)
(***************************************************************************)
RandomSuffixes == {"k3f9x2a1b", "z9q0m4c7d"}

logicBlockUuid(now, rnd) == "logic-" \o ToString(now) \o "-" \o rnd

(***************************************************************************)
(* create_conditional_logic_block: the handler.                            *)
(***************************************************************************)
\* A faulty variant of factoryNoValueOperators: is_not_empty is forgotten.
factoryNoValueOperators_OnlyIsEmpty == {"is_empty"}

factoryNoValueOperators == {"is_empty", "is_not_empty"}

\* A faulty variant of ConditionError: a missing targetBlock goes unnoticed.
ConditionError_OperatorOnly(condition) ==
  IF ~Truthy(condition.operator) THEN "invalid_condition"
  ELSE IF condition.operator \notin factoryNoValueOperators /\ ~Truthy(condition.value)
    THEN "missing_value"
  ELSE "none"

\* The error the validation loop throws on one condition, "none" if it
\* passes: the operator/targetBlock test comes first, the value test second.
ConditionError(condition) ==
  IF ~Truthy(condition.operator) \/ ~Truthy(condition.targetBlock)
    THEN "invalid_condition"
  ELSE IF condition.operator \notin factoryNoValueOperators /\ ~Truthy(condition.value)
    THEN "missing_value"
  ELSE "none"

\* The loop stops at the first condition, in list order, that throws.
RECURSIVE FirstConditionError(_, _)
FirstConditionError(cs, j) ==
  IF j > Len(cs) THEN "none"
  ELSE IF ConditionError(cs[j]) # "none" THEN ConditionError(cs[j])
  ELSE FirstConditionError(cs, j + 1)

\* A faulty variant of BuiltCondition: jumpTo is taken from the value.
BuiltCondition_JumpToValue(tf, condition) ==
  [field |-> tf, operator |-> condition.operator, value |-> condition.value,
   jumpTo |-> condition.value]

\* args.conditions.map(...): one entry of the payload's conditions.
BuiltCondition(tf, condition) ==
  [field |-> tf, operator |-> condition.operator, value |-> condition.value,
   jumpTo |-> condition.targetBlock]

\* A faulty variant of DefaultJumpTo: the default target is dropped.
DefaultJumpTo_Dropped(a) == Absent

\* args.defaultTarget || null
DefaultJumpTo(a) == IF Truthy(a.defaultTarget) THEN a.defaultTarget ELSE Absent

\* args.logicType || 'simple_branch'
LogicTypeOf(a) == IF Truthy(a.logicType) THEN a.logicType ELSE "simple_branch"

FactoryError(e) == [outcome |-> "error", error |-> e]

\* The response: the catch block turns a thrown error into an error text
\* and no block; otherwise the block is returned.
createConditionalLogicBlock(a, now, rnd) ==
  LET e == FirstConditionError(a.conditions, 1) IN
    IF e # "none" THEN FactoryError(e)
    ELSE [outcome |-> "created",
          block |->
            [uuid |-> logicBlockUuid(now, rnd),
             type |-> LOGIC_JUMP,
             hasPayload |-> TRUE,
             payload |->
               [triggerField |-> a.triggerField,
                hasConditions |-> TRUE,
                conditions |->
                  [j \in 1..Len(a.conditions) |->
                     BuiltCondition(a.triggerField, a.conditions[j])],
                defaultJumpTo |-> DefaultJumpTo(a),
                logicType |-> LogicTypeOf(a)]]]

(***************************************************************************)
(* create_dynamic_question_sets: the request.                              *)
(***************************************************************************)
MaxSets == 3

INPUT_DROPDOWN == "INPUT_DROPDOWN"

\* options of an option set: a value may be missing, the text never is.
DynamicOptionLists ==
  {<<>>,
   <<Option("Opt A", Absent)>>,
   <<Option("Opt A", "a")>>,
   <<Option("Opt A", Absent), Option("Opt B", "b")>>}

OptionSet(tv, sfx, ho, os) ==
  [triggerValue |-> tv, questionSuffix |-> sfx, hasOptions |-> ho, options |-> os]

OptionSets ==
  {OptionSet(tv, sfx, FALSE, <<>>) : tv \in {Absent, "x", "y"}, sfx \in {Absent, " (x)"}}
  \cup {OptionSet(tv, sfx, TRUE, os) :
          tv \in {Absent, "x", "y"}, sfx \in {Absent, " (x)"},
          os \in DynamicOptionLists}

DynamicArgs(ql, qt, tf, hs, sets) ==
  [questionLabel |-> ql, questionType |-> qt, triggerField |-> tf,
   hasSets |-> hs, conditionalOptionSets |-> sets]

\* Every argument record the model submits to the generator:
\* conditionalOptionSets is absent or a list of at most MaxSets option sets.
DynamicRequests ==
  {DynamicArgs("Q", qt, "b1", FALSE, <<>>) :
     qt \in {INPUT_MULTIPLE_CHOICE, INPUT_DROPDOWN}}
  \cup {DynamicArgs("Q", qt, "b1", TRUE, sets) :
          qt \in {INPUT_MULTIPLE_CHOICE, INPUT_DROPDOWN},
          sets \in SeqsUpTo(OptionSets, MaxSets)}

(***************************************************************************)
(* create_dynamic_question_sets: the handler.                              *)
(***************************************************************************)
baseQuestionUuid(now, rnd) == "dynamic-" \o ToString(now) \o "-" \o rnd

\* A faulty variant of questionUuid: every variant gets the base id.
questionUuid_AlwaysBase(base, i) == base

\* i is the index of the loop, counted from 0.
questionUuid(base, i) ==
  IF i = 0 THEN base ELSE base \o "-variant-" \o ToString(i + 1)

\* text.toLowerCase().replace(/\s+/g, '-') on the texts of the model.
Slugify(text) ==
  CASE text = "Opt A" -> "opt-a"
    [] text = "Opt B" -> "opt-b"

processedOptions(quuid, options) ==
  [o \in 1..Len(options) |->
     [uuid |-> quuid \o "-opt-" \o ToString(o),
      text |-> options[o].text,
      value |-> IF Truthy(options[o].value) THEN options[o].value
                ELSE Slugify(options[o].text)]]

questionBlock(a, base, optionSet, i) ==
  [uuid |-> questionUuid(base, i),
   type |-> a.questionType,
   hasPayload |-> TRUE,
   payload |->
     [label |-> IF Truthy(optionSet.questionSuffix)
                  THEN a.questionLabel \o optionSet.questionSuffix
                  ELSE a.questionLabel,
      required |-> TRUE,
      options |-> processedOptions(questionUuid(base, i), optionSet.options),
      dynamicContext |->
        [baseQuestion |-> base, triggerField |-> a.triggerField,
         triggerValue |-> optionSet.triggerValue, variantIndex |-> i]]]

\* A faulty variant of routingOperator: equals instead of contains.
routingOperator_Equals == "equals"

routingOperator == "contains"

\* A faulty variant of routingTarget: the block routes to the next variant.
routingTarget_NextVariant(base, i) == questionUuid(base, i + 1)

\* jumpTo: questionUuid
routingTarget(base, i) == questionUuid(base, i)

\* The routing block of variant i > 0; it writes no defaultJumpTo, so the
\* property reads as undefined.
routingLogicBlock(a, base, optionSet, i) ==
  [uuid |-> "logic-" \o questionUuid(base, i),
   type |-> LOGIC_JUMP,
   hasPayload |-> TRUE,
   payload |->
     [triggerField |-> a.triggerField,
      hasConditions |-> TRUE,
      conditions |->
        <<[field |-> a.triggerField, operator |-> routingOperator,
           value |-> optionSet.triggerValue, jumpTo |-> routingTarget(base, i)]>>,
      defaultJumpTo |-> Absent,
      logicType |-> "dynamic_question_routing",
      questionContext |-> [baseQuestion |-> base, variant |-> i + 1]]]

\* The catch block: an error text naming the failure (and the number of the
\* option set); the blocks built so far are dropped.
DynamicError(e, n) == [outcome |-> "error", error |-> e, optionSet |-> n]

\* A faulty variant of OptionSetError: an empty options list is accepted.
OptionSetError_EmptyAccepted(optionSet) ==
  IF ~Truthy(optionSet.triggerValue) THEN "missing_trigger_value"
  ELSE IF ~optionSet.hasOptions THEN "missing_options"
  ELSE "none"

\* The error thrown on one option set, "none" if it passes.
OptionSetError(optionSet) ==
  IF ~Truthy(optionSet.triggerValue) THEN "missing_trigger_value"
  ELSE IF ~optionSet.hasOptions \/ Len(optionSet.options) = 0 THEN "missing_options"
  ELSE "none"

\* A faulty variant of NeedsRouting: the first variant gets a routing block too.
NeedsRouting_Always(i) == TRUE

\* if (i > 0): the first variant is the default and gets no routing block.
NeedsRouting(i) == i > 0

\* The loop over the option sets from index i on (counted from 0), with the
\* question blocks and the logic blocks pushed so far.
RECURSIVE DynamicLoop(_, _, _, _, _)
DynamicLoop(a, base, i, questionBlocks, logicBlocks) ==
  IF i >= Len(a.conditionalOptionSets)
    THEN [outcome |-> "created",
          totalQuestionBlocks |-> Len(questionBlocks),
          totalLogicBlocks |-> Len(logicBlocks),
          baseQuestionUuid |-> base,
          questionBlocks |-> questionBlocks,
          logicBlocks |-> logicBlocks]
  ELSE LET optionSet == a.conditionalOptionSets[i + 1] IN
    IF OptionSetError(optionSet) # "none"
      THEN DynamicError(OptionSetError(optionSet), i + 1)
    ELSE DynamicLoop(a, base, i + 1,
                     Append(questionBlocks, questionBlock(a, base, optionSet, i)),
                     IF NeedsRouting(i)
                       THEN Append(logicBlocks, routingLogicBlock(a, base, optionSet, i))
                       ELSE logicBlocks)

createDynamicQuestionSets(a, now, rnd) ==
  IF ~a.hasSets \/ Len(a.conditionalOptionSets) = 0
    THEN DynamicError("empty_option_sets", 0)
  ELSE DynamicLoop(a, baseQuestionUuid(now, rnd), 0, <<>>, <<>>)

(***************************************************************************)
(* The server: one tool call is pending; its handler answers it.           *)
(***************************************************************************)
FLOW == "validate_form_logic_flow"
CHOICE == "validate_multiple_choice_logic"
CREATE == "create_conditional_logic_block"
DYNAMIC == "create_dynamic_question_sets"

\* The cases of the switch that the model covers (the other registered tools
\* call the Tally API or return templates).
RegisteredTools == {FLOW, CHOICE, CREATE, DYNAMIC}

\* Tool names that no case of the switch matches.
UnknownTools == {"no_such_tool", "validate_form"}

McpError(code, message) == [outcome |-> "mcp_error", code |-> code, message |-> message]

\* default: throw new McpError(ErrorCode.MethodNotFound, `Unknown tool: ${name}`)
DefaultCase(name) == McpError("MethodNotFound", "Unknown tool: " \o name)

\* The catch block around the switch: whatever was thrown inside is thrown
\* again as an InternalError that carries the message of the original error.
HandlerCatch(name, error) ==
  McpError("InternalError", "Error executing tool " \o name \o ": " \o error.message)

NoQuestion == TriggerQuestion(Absent, Absent, FALSE, <<>>, FALSE, <<>>)

NoResult == [outcome |-> "pending"]

Init ==
  /\ pc = "request"
  /\ result = NoResult
  /\ clock = 0
  /\ issued = <<>>
  /\ calls = <<>>
  /\ frames = <<>>
  /\ \/ /\ tool = FLOW
        /\ IsFlowRequest(blocks)
        /\ triggerQuestion = NoQuestion
        /\ conditionalLogic = <<>>
        /\ args = NoArgs
     \/ /\ tool = CHOICE
        /\ blocks = <<>>
        /\ triggerQuestion \in TriggerQuestions
        /\ IsChoiceLogic(conditionalLogic)
        /\ args = NoArgs
     \/ /\ tool = CREATE
        /\ blocks = <<>>
        /\ triggerQuestion = NoQuestion
        /\ conditionalLogic = <<>>
        /\ args \in FactoryRequests
     \/ /\ tool = DYNAMIC
        /\ blocks = <<>>
        /\ triggerQuestion = NoQuestion
        /\ conditionalLogic = <<>>
        /\ args \in DynamicRequests
     \/ /\ tool \in UnknownTools
        /\ blocks = <<>>
        /\ triggerQuestion = NoQuestion
        /\ conditionalLogic = <<>>
        /\ args = NoArgs

ValidateFormLogicFlow ==
  /\ pc = "request"
  /\ tool = FLOW
  /\ result' = validateFormLogicFlow(blocks)
  /\ pc' = "done"
  /\ UNCHANGED <<tool, blocks, triggerQuestion, conditionalLogic, args, clock,
                 issued, calls, frames>>

ValidateMultipleChoiceLogic ==
  /\ pc = "request"
  /\ tool = CHOICE
  /\ result' = validateMultipleChoiceLogic(triggerQuestion, conditionalLogic)
  /\ pc' = "done"
  /\ UNCHANGED <<tool, blocks, triggerQuestion, conditionalLogic, args, clock,
                 issued, calls, frames>>

\* The handler draws the random suffix, reads the clock and answers; issued
\* records, in order, the identifiers of the blocks this tool has returned.
CreateConditionalLogicBlock ==
  /\ pc = "request"
  /\ tool = CREATE
  /\ \E rnd \in RandomSuffixes :
       /\ result' = createConditionalLogicBlock(args, clock, rnd)
       /\ issued' = IF result'.outcome = "created"
                      THEN Append(issued, result'.block.uuid) ELSE issued
  /\ pc' = "done"
  /\ UNCHANGED <<tool, blocks, triggerQuestion, conditionalLogic, args, clock,
                 calls, frames>>

\* The handler draws the random suffix, reads the clock and answers.
CreateDynamicQuestionSets ==
  /\ pc = "request"
  /\ tool = DYNAMIC
  /\ \E rnd \in RandomSuffixes :
       result' = createDynamicQuestionSets(args, clock, rnd)
  /\ pc' = "done"
  /\ UNCHANGED <<tool, blocks, triggerQuestion, conditionalLogic, args, clock,
                 issued, calls, frames>>

\* No case matches the name: the default case throws inside the try block,
\* so the request is answered by what the catch block throws.
CallUnknownTool ==
  /\ pc = "request"
  /\ tool \notin RegisteredTools
  /\ result' = HandlerCatch(tool, DefaultCase(tool))
  /\ pc' = "done"
  /\ UNCHANGED <<tool, blocks, triggerQuestion, conditionalLogic, args, clock,
                 issued, calls, frames>>

Next ==
  \/ ValidateFormLogicFlow
  \/ ValidateMultipleChoiceLogic
  \/ CreateConditionalLogicBlock
  \/ CreateDynamicQuestionSets
  \/ CallUnknownTool

Spec == Init /\ [][Next]_vars

(***************************************************************************)
(* A session of several create_conditional_logic_block calls.  The handler *)
(* contains no await, so calls never interleave inside the handler; the    *)
(* clock may or may not advance between two calls.                         *)
(***************************************************************************)
MaxCalls == 2
MaxClock == 1

\* The requests of a session: at most one condition, no optional argument.
SessionRequests ==
  {a \in FactoryRequests :
     Len(a.conditions) <= 1 /\ a.defaultTarget = Absent /\ a.logicType = Absent}

InitSession ==
  /\ pc = "request"
  /\ result = NoResult
  /\ clock = 0
  /\ issued = <<>>
  /\ calls = <<>>
  /\ frames = <<>>
  /\ tool = CREATE
  /\ blocks = <<>>
  /\ triggerQuestion = NoQuestion
  /\ conditionalLogic = <<>>
  /\ args \in SessionRequests

\* A millisecond passes.
Tick ==
  /\ clock < MaxClock
  /\ clock' = clock + 1
  /\ UNCHANGED <<pc, tool, blocks, triggerQuestion, conditionalLogic, args,
                 issued, result, calls, frames>>

\* The next request of the session arrives.
NextRequest ==
  /\ pc = "done"
  /\ Len(issued) < MaxCalls
  /\ pc' = "request"
  /\ args' \in SessionRequests
  /\ result' = NoResult
  /\ UNCHANGED <<tool, blocks, triggerQuestion, conditionalLogic, clock, issued,
                 calls, frames>>

NextSession == CreateConditionalLogicBlock \/ Tick \/ NextRequest

SpecSession == InitSession /\ [][NextSession]_vars

(***************************************************************************)
(* Several validations in flight.  The handlers contain no await, so the   *)
(* runtime runs each invocation to completion; the model lets invocations  *)
(* interleave at every section of the handler, which includes every        *)
(* schedule of the runtime.  issues, warnings, blockMap, logicBlocks,      *)
(* inputBlocks and reachableBlocks are declared inside the handler, hence  *)
(* each invocation owns a frame of them.                                   *)
(***************************************************************************)
MaxInvocations == 2

ConcurrentFlowInputs ==
  {<<FlowBlock("b1", LOGIC_JUMP, TRUE,
               [triggerField |-> "b1", hasConditions |-> TRUE,
                conditions |-> <<FlowCondition("equals", "A", "b2")>>,
                defaultJumpTo |-> Ghost]),
     FlowBlock("b2", INPUT_TEXT, TRUE, NoPayload)>>,
   <<FlowBlock("b1", INPUT_TEXT, TRUE, NoPayload),
     FlowBlock("b2", LOGIC_JUMP, TRUE,
               [triggerField |-> Absent, hasConditions |-> TRUE,
                conditions |-> <<FlowCondition("equals", "A", "b2")>>,
                defaultJumpTo |-> Absent]),
     FlowBlock("b3", INPUT_TEXT, TRUE, NoPayload)>>,
   <<FlowBlock("b1", LOGIC_JUMP, FALSE, NoPayload)>>}

ConcurrentChoiceInputs ==
  {<<TriggerQuestion("b1", INPUT_CHECKBOXES, FALSE, <<>>, FALSE, <<>>),
     <<[hasConditions |-> TRUE,
        conditions |-> <<ChoiceCondition("equals", "A", "b2")>>]>>>>,
   <<TriggerQuestion("b1", INPUT_TEXT, TRUE, <<>>, TRUE, <<Option("A", "a")>>),
     <<[hasConditions |-> TRUE,
        conditions |-> <<ChoiceCondition("contains", "A", Absent)>>],
       [hasConditions |-> FALSE, conditions |-> <<>>]>>>>}

\* An invocation: its tool, the arguments it holds, the arguments as they
\* were submitted, the section of the handler it has reached and its response.
Invocation(t, bs, tq, ls) ==
  [tool |-> t, blocks |-> bs, triggerQuestion |-> tq, conditionalLogic |-> ls,
   submitted |-> <<bs, tq, ls>>, phase |-> "start", report |-> NoResult]

ConcurrentRequests ==
  {Invocation(FLOW, bs, NoQuestion, <<>>) : bs \in ConcurrentFlowInputs}
  \cup {Invocation(CHOICE, <<>>, q[1], q[2]) : q \in ConcurrentChoiceInputs}

\* const issues = [], warnings = [], blockMap = new Map(), ...
NewFrame ==
  [blockMap |-> <<>>, logicBlocks |-> <<>>, inputBlocks |-> <<>>,
   reachableBlocks |-> {}, issues |-> <<>>, warnings |-> <<>>]

\* A faulty variant of Scope: the locals are module-level, one frame for all.
Scope_Shared(c) == 1

\* The frame invocation c works on: its own.
Scope(c) == c

Frame(c) == frames[Scope(c)]

InitConcurrent ==
  /\ pc = "concurrent"
  /\ tool = Absent
  /\ blocks = <<>>
  /\ triggerQuestion = NoQuestion
  /\ conditionalLogic = <<>>
  /\ args = NoArgs
  /\ clock = 0
  /\ issued = <<>>
  /\ result = NoResult
  /\ calls \in [1..MaxInvocations -> ConcurrentRequests]
  /\ frames = [c \in 1..MaxInvocations |-> NewFrame]

Unconcurrent ==
  UNCHANGED <<pc, tool, blocks, triggerQuestion, conditionalLogic, args, clock,
              issued, result>>

\* validateFormLogicFlow, first section: the locals and the block map.
BuildBlockMap(c) ==
  /\ calls[c].tool = FLOW
  /\ calls[c].phase = "start"
  /\ frames' = [frames EXCEPT ![Scope(c)] =
       [NewFrame EXCEPT !.blockMap = BlockMap(calls[c].blocks),
                        !.logicBlocks = LogicBlocksOf(calls[c].blocks),
                        !.inputBlocks = InputBlocksOf(calls[c].blocks)]]
  /\ calls' = [calls EXCEPT ![c].phase = "validate"]
  /\ Unconcurrent

\* Second section: the checks on the logic blocks; a LOGIC_JUMP block without
\* payload throws, and the catch block answers.
ValidateLogicBlocks(c) ==
  /\ calls[c].tool = FLOW
  /\ calls[c].phase = "validate"
  /\ IF FlowThrows(Frame(c).logicBlocks)
       THEN /\ calls' = [calls EXCEPT ![c].phase = "done",
                                      ![c].report = ErrorResponse]
            /\ frames' = frames
       ELSE /\ frames' = [frames EXCEPT ![Scope(c)].issues =
                 @ \o FlowIssues(Frame(c).blockMap, Frame(c).logicBlocks, 1)]
            /\ calls' = [calls EXCEPT ![c].phase = "reach"]
  /\ Unconcurrent

\* Third section: the traversal and the unreachable warnings.
FindUnreachable(c) ==
  /\ calls[c].tool = FLOW
  /\ calls[c].phase = "reach"
  /\ LET bs == calls[c].blocks
         reach == IF Len(bs) = 0 THEN {}
                  ELSE traverseBlocks(Frame(c).blockMap, bs[1].uuid, {})
     IN frames' = [frames EXCEPT
          ![Scope(c)].reachableBlocks = reach,
          ![Scope(c)].warnings = @ \o UnreachableWarnings(bs, reach, 1)]
  /\ calls' = [calls EXCEPT ![c].phase = "cycles"]
  /\ Unconcurrent

\* Fourth section: detectCircularLogic().
DetectCircular(c) ==
  /\ calls[c].tool = FLOW
  /\ calls[c].phase = "cycles"
  /\ frames' = [frames EXCEPT ![Scope(c)].warnings =
       @ \o detectCircularLogic(Frame(c).blockMap, Frame(c).logicBlocks, 1)]
  /\ calls' = [calls EXCEPT ![c].phase = "respond"]
  /\ Unconcurrent

\* Last section: validationResult.
FlowRespond(c) ==
  /\ calls[c].tool = FLOW
  /\ calls[c].phase = "respond"
  /\ calls' = [calls EXCEPT
       ![c].phase = "done",
       ![c].report =
          [outcome |-> "report", status |-> StatusOf(Frame(c).issues),
           issues |-> Frame(c).issues, warnings |-> Frame(c).warnings,
           totalBlocks |-> Len(calls[c].blocks),
           inputBlocks |-> Len(Frame(c).inputBlocks),
           logicBlocks |-> Len(Frame(c).logicBlocks),
           reachableBlocks |-> Cardinality(Frame(c).reachableBlocks)]]
  /\ frames' = frames
  /\ Unconcurrent

\* validateMultipleChoiceLogic, first section: the locals and the trigger-type
\* warning.
ChoiceBegin(c) ==
  /\ calls[c].tool = CHOICE
  /\ calls[c].phase = "start"
  /\ frames' = [frames EXCEPT ![Scope(c)] =
       [NewFrame EXCEPT !.warnings =
          IF ~isMultipleChoice(calls[c].triggerQuestion)
            THEN <<ChoiceIssue("not_multiple_choice", 0, 0)>> ELSE <<>>]]
  /\ calls' = [calls EXCEPT ![c].phase = "analyze"]
  /\ Unconcurrent

\* Second section: the loop over the logic blocks and their conditions.
ChoiceAnalyze(c) ==
  /\ calls[c].tool = CHOICE
  /\ calls[c].phase = "analyze"
  /\ LET tq == calls[c].triggerQuestion
         ls == calls[c].conditionalLogic
     IN frames' = [frames EXCEPT
          ![Scope(c)].issues = @ \o ChoiceIssues(tq, ls, 1),
          ![Scope(c)].warnings = @ \o ChoiceWarnings(tq, ls, 1)]
  /\ calls' = [calls EXCEPT ![c].phase = "respond"]
  /\ Unconcurrent

\* Last section: validationResult.
ChoiceRespond(c) ==
  /\ calls[c].tool = CHOICE
  /\ calls[c].phase = "respond"
  /\ LET tq == calls[c].triggerQuestion
         ls == calls[c].conditionalLogic
     IN calls' = [calls EXCEPT
          ![c].phase = "done",
          ![c].report =
             [outcome |-> "report", status |-> StatusOf(Frame(c).issues),
              issues |-> Frame(c).issues, warnings |-> Frame(c).warnings,
              allowsMultipleSelections |-> allowsMultipleSelections(tq),
              optionCount |-> IF tq.hasPayload /\ tq.hasOptions
                                THEN Len(tq.options) ELSE 0,
              logicBlocks |-> Len(ls),
              totalConditions |-> TotalConditions(ls, 1)]]
  /\ frames' = frames
  /\ Unconcurrent

NextConcurrent ==
  \E c \in 1..MaxInvocations :
    \/ BuildBlockMap(c)
    \/ ValidateLogicBlocks(c)
    \/ FindUnreachable(c)
    \/ DetectCircular(c)
    \/ FlowRespond(c)
    \/ ChoiceBegin(c)
    \/ ChoiceAnalyze(c)
    \/ ChoiceRespond(c)

SpecConcurrent == InitConcurrent /\ [][NextConcurrent]_vars

(***************************************************************************)
(* Vocabulary of the properties.                                           *)
(***************************************************************************)
FlowDone == pc = "done" /\ tool = FLOW

CreateDone == pc = "done" /\ tool = CREATE

DynamicDone == pc = "done" /\ tool = DYNAMIC

ChoiceDone == pc = "done" /\ tool = CHOICE

Uuids(bs) == {bs[i].uuid : i \in 1..Len(bs)}

DistinctUuids(bs) ==
  \A i, j \in 1..Len(bs) : i # j => bs[i].uuid # bs[j].uuid

HasLogicPayload(b) == IsLogicJump(b) /\ b.hasPayload

\* The targets of the conditions of a logic block.
CondTargets(b) ==
  IF HasLogicPayload(b) /\ b.payload.hasConditions
    THEN {b.payload.conditions[j].jumpTo : j \in 1..Len(b.payload.conditions)}
           \ {Absent}
    ELSE {}

\* The logic graph of section 4.2 of the specification, on block ids.
SequentialEdges(bs) == {<<bs[i].uuid, bs[i + 1].uuid>> : i \in 1..(Len(bs) - 1)}

ConditionalEdges(bs) ==
  UNION {{<<bs[i].uuid, t>> : t \in CondTargets(bs[i])} : i \in 1..Len(bs)}

DefaultEdges(bs) ==
  {<<bs[i].uuid, bs[i].payload.defaultJumpTo>> :
     i \in {k \in 1..Len(bs) :
              HasLogicPayload(bs[k]) /\ Truthy(bs[k].payload.defaultJumpTo)}}

Successors(S, E) == {e[2] : e \in {d \in E : d[1] \in S}}

\* The nodes reachable from S along edges of E in zero or more steps.
RECURSIVE ReachVia(_, _)
ReachVia(S, E) ==
  LET N == S \cup Successors(S, E) IN IF N = S THEN S ELSE ReachVia(N, E)

\* u lies on a cycle of E.
OnCycle(u, E) == u \in ReachVia(Successors({u}, E), E)

CountOf(seq, x) == Cardinality({k \in 1..Len(seq) : seq[k] = x})

Has(seq, x) == \E k \in 1..Len(seq) : seq[k] = x

\* The positions <<i, j>> of the conditions of a conditionalLogic list.
CondPositions(ls) ==
  UNION {{<<i, j>> : j \in 1..Len(ls[i].conditions)} :
           i \in {k \in 1..Len(ls) : ls[k].hasConditions}}

\* The issues of a report that name condition j of logic block i.
IssuesAt(r, i, j) ==
  {k \in 1..Len(r.issues) : r.issues[k].block = i /\ r.issues[k].condition = j}

ReplaceOperator(ls, i, j, op) == [ls EXCEPT ![i].conditions[j].operator = op]

(***************************************************************************)
(* Properties.                                                             *)
(***************************************************************************)

\* C1: for every non-empty block array (ids pairwise distinct, so that the
\* graph on ids is defined), the response carries exactly one 'may be
\* unreachable' warning for each block that no path of sequential, conditional
\* or default edges reaches from the first block, and none for any other block.
C1_UnreachableWarnedExactlyOnce ==
  (FlowDone /\ Len(blocks) > 0 /\ DistinctUuids(blocks)) =>
    LET E == SequentialEdges(blocks) \cup ConditionalEdges(blocks)
               \cup DefaultEdges(blocks)
        reach == ReachVia({blocks[1].uuid}, E)
    IN \A i \in 1..Len(blocks) :
         CountOf(result.warnings, Warning("unreachable", blocks[i].uuid))
           = (IF blocks[i].uuid \in reach THEN 0 ELSE 1)

\* C2: in every report of either validator, status is INVALID exactly when
\* the issues list is non-empty (and VALID otherwise), whatever the warnings.
C2_StatusIffIssues ==
  (pc = "done" /\ result.outcome = "report") =>
    /\ result.status \in {"VALID", "INVALID"}
    /\ (result.status = "INVALID") <=> (Len(result.issues) > 0)

\* C2 witness: a report that carries warnings, no issue, and is VALID.
C2_Witness ==
  /\ pc = "done"
  /\ result.outcome = "report"
  /\ Len(result.warnings) > 0
  /\ Len(result.issues) = 0
  /\ result.status = "VALID"

\* No reference of a logic block dangles: each triggerField, condition target
\* and defaultJumpTo that is set is the id of a block of the array.
NoDanglingReference(bs) ==
  \A i \in 1..Len(bs) :
    HasLogicPayload(bs[i]) =>
      /\ Truthy(bs[i].payload.triggerField) => bs[i].payload.triggerField \in Uuids(bs)
      /\ CondTargets(bs[i]) \subseteq Uuids(bs)
      /\ Truthy(bs[i].payload.defaultJumpTo) => bs[i].payload.defaultJumpTo \in Uuids(bs)

\* C3: when every triggerField, condition target and defaultTarget of every
\* logic block is the id of a block of the array, the validator reports no issue.
C3_NoDanglingNoIssue ==
  (FlowDone /\ NoDanglingReference(blocks)) => Len(result.issues) = 0

\* C3 witness: a report without issues for an array in which a logic block has
\* a triggerField, a condition target and a defaultTarget, all three resolving.
C3_Witness ==
  /\ FlowDone
  /\ result.outcome = "report"
  /\ NoDanglingReference(blocks)
  /\ \E i \in 1..Len(blocks) :
       /\ HasLogicPayload(blocks[i])
       /\ Truthy(blocks[i].payload.triggerField)
       /\ Truthy(blocks[i].payload.defaultJumpTo)
       /\ CondTargets(blocks[i]) # {}
  /\ Len(result.issues) = 0

\* An issue of kind k names logic block u and reference r, and the report is
\* INVALID.
DanglingReported(k, u, r) ==
  result.status = "INVALID" /\ Has(result.issues, Issue(k, u, r))

\* C4: for every logic block of the array, each triggerField, condition target
\* and defaultTarget that is not the id of a block of the array produces an
\* issue naming that logic block, and the status is INVALID.
C4_DanglingReferenceReported ==
  FlowDone =>
    \A i \in 1..Len(blocks) :
      HasLogicPayload(blocks[i]) =>
        LET u == blocks[i].uuid
            p == blocks[i].payload
        IN /\ (Truthy(p.triggerField) /\ p.triggerField \notin Uuids(blocks))
                => DanglingReported("trigger", u, p.triggerField)
           /\ \A t \in CondTargets(blocks[i]) :
                t \notin Uuids(blocks) => DanglingReported("jump", u, t)
           /\ (Truthy(p.defaultJumpTo) /\ p.defaultJumpTo \notin Uuids(blocks))
                => DanglingReported("default", u, p.defaultJumpTo)

\* C5: for every condition of every logic block that has no value while its
\* operator is neither is_empty nor is_not_empty, the validator records an
\* issue for that logic block and the report is INVALID.
C5_MissingValueReported ==
  FlowDone =>
    \A i \in 1..Len(blocks) :
      (HasLogicPayload(blocks[i]) /\ blocks[i].payload.hasConditions) =>
        \A j \in 1..Len(blocks[i].payload.conditions) :
          LET c == blocks[i].payload.conditions[j] IN
            (~Truthy(c.value) /\ c.operator \notin noValueOperators) =>
               /\ result.status = "INVALID"
               /\ \E k \in 1..Len(result.issues) :
                    /\ result.issues[k].kind = "missing_value"
                    /\ result.issues[k].block = blocks[i].uuid

\* C6: for every logic block from which conditional edges lead back to that
\* same logic block (ids pairwise distinct), the response carries a cycle
\* warning naming that logic block as the root.
C6_CycleWarned ==
  (FlowDone /\ DistinctUuids(blocks)) =>
    \A i \in 1..Len(blocks) :
      (IsLogicJump(blocks[i]) /\ OnCycle(blocks[i].uuid, ConditionalEdges(blocks)))
        => Has(result.warnings, Warning("circular", blocks[i].uuid))

\* C7: for every block array whose conditional edges contain no cycle (ids
\* pairwise distinct), the response carries no cycle warning.
C7_NoCycleNoWarning ==
  (FlowDone /\ DistinctUuids(blocks)
     /\ \A i \in 1..Len(blocks) :
          ~OnCycle(blocks[i].uuid, ConditionalEdges(blocks))) =>
    \A k \in 1..Len(result.warnings) : result.warnings[k].kind # "circular"

\* Condition j of logic block i uses equals against a checkbox trigger and is
\* reported as a critical issue.
EqualsIsCritical(i, j) ==
  /\ Has(result.issues, ChoiceIssue("critical_equals", i, j))
  /\ result.status = "INVALID"

\* The report of the same request with the operator of condition j of logic
\* block i replaced by contains names no issue for that condition.
ContainsIsClean(i, j) ==
  IssuesAt(validateMultipleChoiceLogic(triggerQuestion,
             ReplaceOperator(conditionalLogic, i, j, "contains")), i, j) = {}

\* C8 as stated: for a trigger of type INPUT_CHECKBOXES every condition using
\* equals is reported as a critical issue (status INVALID), and replacing
\* equals by contains in that condition leaves no issue for that condition.
C8_EqualsCriticalContainsClean ==
  (ChoiceDone /\ triggerQuestion.type = INPUT_CHECKBOXES) =>
    \A pos \in CondPositions(conditionalLogic) :
      conditionalLogic[pos[1]].conditions[pos[2]].operator = "equals" =>
        EqualsIsCritical(pos[1], pos[2]) /\ ContainsIsClean(pos[1], pos[2])

\* C8 as amended: the same, the replacement leaving no issue for a condition
\* that has a value and a targetBlock.
C8_EqualsCriticalContainsCleanIfComplete ==
  (ChoiceDone /\ triggerQuestion.type = INPUT_CHECKBOXES) =>
    \A pos \in CondPositions(conditionalLogic) :
      LET c == conditionalLogic[pos[1]].conditions[pos[2]] IN
        c.operator = "equals" =>
          /\ EqualsIsCritical(pos[1], pos[2])
          /\ (Truthy(c.value) /\ Truthy(c.targetBlock))
               => ContainsIsClean(pos[1], pos[2])

\* C8 witness: a checkbox trigger and an equals condition with a value and a
\* targetBlock, reported as critical.
C8_Witness ==
  /\ ChoiceDone
  /\ triggerQuestion.type = INPUT_CHECKBOXES
  /\ \E pos \in CondPositions(conditionalLogic) :
       LET c == conditionalLogic[pos[1]].conditions[pos[2]] IN
         /\ c.operator = "equals"
         /\ Truthy(c.value)
         /\ Truthy(c.targetBlock)
         /\ EqualsIsCritical(pos[1], pos[2])

\* An operator issue (critical equals or incompatible operator) names
\* condition j of logic block i.
OperatorIssueAt(i, j) ==
  \E k \in IssuesAt(result, i, j) :
    result.issues[k].kind \in {"critical_equals", "incompatible_operator"}

\* C9: the trigger allows multiple selections exactly when it is
\* INPUT_CHECKBOXES, or INPUT_MULTIPLE_CHOICE with payload.maxSelections > 1;
\* for such a trigger every equals or not_equals condition records an issue,
\* and for any other trigger not_equals records no operator issue.
C9_MultiSelectOperators ==
  ChoiceDone =>
    LET tq == triggerQuestion
        multi == \/ tq.type = INPUT_CHECKBOXES
                 \/ /\ tq.type = INPUT_MULTIPLE_CHOICE
                    /\ tq.hasPayload
                    /\ tq.maxSelections # <<>>
                    /\ tq.maxSelections[1] > 1
    IN /\ result.allowsMultipleSelections = multi
       /\ \A pos \in CondPositions(conditionalLogic) :
            LET c == conditionalLogic[pos[1]].conditions[pos[2]] IN
              /\ (multi /\ c.operator \in {"equals", "not_equals"})
                   => (IssuesAt(result, pos[1], pos[2]) # {}
                         /\ OperatorIssueAt(pos[1], pos[2]))
              /\ (~multi /\ c.operator = "not_equals")
                   => ~OperatorIssueAt(pos[1], pos[2])

\* C9 witness: an INPUT_MULTIPLE_CHOICE trigger with maxSelections 2 and a
\* not_equals condition, reported as incompatible.
C9_Witness ==
  /\ ChoiceDone
  /\ triggerQuestion.type = INPUT_MULTIPLE_CHOICE
  /\ triggerQuestion.maxSelections = <<2>>
  /\ \E pos \in CondPositions(conditionalLogic) :
       /\ conditionalLogic[pos[1]].conditions[pos[2]].operator = "not_equals"
       /\ Has(result.issues, ChoiceIssue("incompatible_operator", pos[1], pos[2]))

\* The trigger is a single-select INPUT_MULTIPLE_CHOICE question.
SingleSelectChoice(tq) ==
  /\ tq.type = INPUT_MULTIPLE_CHOICE
  /\ (~tq.hasPayload \/ tq.maxSelections = <<>> \/ tq.maxSelections[1] <= 1)

\* The condition uses equals and has a value and a targetBlock.
CompleteEquals(c) ==
  c.operator = "equals" /\ Truthy(c.value) /\ Truthy(c.targetBlock)

\* C10: for a single-select INPUT_MULTIPLE_CHOICE trigger, an equals condition
\* with a value and a targetBlock produces a warning and no issue, and a
\* request made only of such conditions is reported VALID.
C10_SingleSelectEqualsWarns ==
  (ChoiceDone /\ SingleSelectChoice(triggerQuestion)) =>
    /\ \A pos \in CondPositions(conditionalLogic) :
         CompleteEquals(conditionalLogic[pos[1]].conditions[pos[2]]) =>
           /\ Has(result.warnings, ChoiceIssue("equals_single_select", pos[1], pos[2]))
           /\ IssuesAt(result, pos[1], pos[2]) = {}
    /\ ((\A i \in 1..Len(conditionalLogic) : conditionalLogic[i].hasConditions)
          /\ \A pos \in CondPositions(conditionalLogic) :
               CompleteEquals(conditionalLogic[pos[1]].conditions[pos[2]]))
         => result.status = "VALID"

\* C10 witness: maxSelections 1, every condition a complete equals condition,
\* at least one of them, and a VALID report with the warning.
C10_Witness ==
  /\ ChoiceDone
  /\ triggerQuestion.type = INPUT_MULTIPLE_CHOICE
  /\ triggerQuestion.maxSelections = <<1>>
  /\ CondPositions(conditionalLogic) # {}
  /\ \A i \in 1..Len(conditionalLogic) : conditionalLogic[i].hasConditions
  /\ \A pos \in CondPositions(conditionalLogic) :
       CompleteEquals(conditionalLogic[pos[1]].conditions[pos[2]])
  /\ Has(result.warnings, ChoiceIssue("equals_single_select", 1, 1))
  /\ result.status = "VALID"

\* The trigger declares payload.options.
DeclaresOptions(tq) == tq.hasPayload /\ tq.hasOptions

\* The value equals the value or the text of a declared option.
MatchesAnOption(tq, v) ==
  \E o \in 1..Len(tq.options) : v = tq.options[o].value \/ v = tq.options[o].text

\* C11: when a condition has a value and the trigger declares payload.options,
\* the 'does not match any option' warning is emitted for the condition if and
\* only if the value equals neither the value nor the text of any declared
\* option; in particular a value equal to the text of an option that also has
\* a different value yields no warning.
C11_OptionMismatchIffNoMatch ==
  (ChoiceDone /\ DeclaresOptions(triggerQuestion)) =>
    \A pos \in CondPositions(conditionalLogic) :
      LET c == conditionalLogic[pos[1]].conditions[pos[2]] IN
        Truthy(c.value) =>
          (Has(result.warnings, ChoiceIssue("option_mismatch", pos[1], pos[2]))
             <=> ~MatchesAnOption(triggerQuestion, c.value))

\* C12: for a trigger whose type is neither INPUT_MULTIPLE_CHOICE nor
\* INPUT_CHECKBOXES the handler answers with a report that carries exactly one
\* trigger-type warning, records a missing value and a missing targetBlock for
\* exactly the conditions that lack them, in every logic block, and records no
\* operator issue for any condition, equals and not_equals included.
C12_OtherTriggerStillChecked ==
  (ChoiceDone
     /\ triggerQuestion.type \notin {INPUT_MULTIPLE_CHOICE, INPUT_CHECKBOXES}) =>
    /\ result.outcome = "report"
    /\ CountOf(result.warnings, ChoiceIssue("not_multiple_choice", 0, 0)) = 1
    /\ \A pos \in CondPositions(conditionalLogic) :
         LET c == conditionalLogic[pos[1]].conditions[pos[2]] IN
           /\ Has(result.issues, ChoiceIssue("missing_value", pos[1], pos[2]))
                <=> (~Truthy(c.value) /\ c.operator \notin {"is_empty", "is_not_empty"})
           /\ Has(result.issues, ChoiceIssue("missing_target", pos[1], pos[2]))
                <=> ~Truthy(c.targetBlock)
           /\ ~OperatorIssueAt(pos[1], pos[2])

\* C12 witness: an INPUT_TEXT trigger, two logic blocks, an equals condition
\* without value or targetBlock in the second one; both are reported.
C12_Witness ==
  /\ ChoiceDone
  /\ triggerQuestion.type = INPUT_TEXT
  /\ Len(conditionalLogic) = 2
  /\ conditionalLogic[2].hasConditions
  /\ Len(conditionalLogic[2].conditions) = 1
  /\ conditionalLogic[2].conditions[1] = ChoiceCondition("equals", Absent, Absent)
  /\ Has(result.warnings, ChoiceIssue("not_multiple_choice", 0, 0))
  /\ Has(result.issues, ChoiceIssue("missing_value", 2, 1))
  /\ Has(result.issues, ChoiceIssue("missing_target", 2, 1))

\* The condition has no value although its operator is neither is_empty nor
\* is_not_empty.
LacksRequiredValue(c) ==
  ~Truthy(c.value) /\ c.operator \notin {"is_empty", "is_not_empty"}

\* The condition lacks an operator or a targetBlock.
LacksOperatorOrTarget(c) == ~Truthy(c.operator) \/ ~Truthy(c.targetBlock)

\* The condition uses is_empty or is_not_empty and has a targetBlock.
NoValueCondition(c) ==
  c.operator \in {"is_empty", "is_not_empty"} /\ Truthy(c.targetBlock)

\* Every condition of the request passes the factory's validation.
AllConditionsValid(cs) ==
  \A j \in 1..Len(cs) : ~LacksOperatorOrTarget(cs[j]) /\ ~LacksRequiredValue(cs[j])

\* A successful call leaves the value of every condition that came without
\* one unset.
ValuesStayUnset ==
  /\ result.outcome = "created"
  /\ \A j \in 1..Len(args.conditions) :
       ~Truthy(args.conditions[j].value)
         => result.block.payload.conditions[j].value = Absent

\* C13 as stated: the call fails with the missing-value error when any
\* condition has no value and its operator is neither is_empty nor
\* is_not_empty; a request whose conditions are valid, those with is_empty or
\* is_not_empty and a targetBlock included, succeeds and the resulting
\* condition has value unset.
C13_MissingValueError ==
  CreateDone =>
    /\ (\E j \in 1..Len(args.conditions) : LacksRequiredValue(args.conditions[j]))
         => result = FactoryError("missing_value")
    /\ AllConditionsValid(args.conditions) => ValuesStayUnset

\* C13 amended: the call fails when any condition has no value and its
\* operator is neither is_empty nor is_not_empty, and the error is the
\* missing-value error when every condition of the list carries an operator
\* and a targetBlock; a request whose conditions are valid, those with
\* is_empty or is_not_empty and a targetBlock included, succeeds and the
\* resulting condition has value unset.
C13_MissingValueErrorIfWellFormed ==
  CreateDone =>
    /\ (\E j \in 1..Len(args.conditions) : LacksRequiredValue(args.conditions[j]))
         => /\ result.outcome = "error"
            /\ (\A j \in 1..Len(args.conditions) :
                  ~LacksOperatorOrTarget(args.conditions[j]))
                 => result = FactoryError("missing_value")
    /\ AllConditionsValid(args.conditions) => ValuesStayUnset

\* C13 witness: a valid is_not_empty condition followed by an equals condition
\* without value; the call fails with the missing-value error.
C13_Witness ==
  /\ CreateDone
  /\ args.conditions = <<FactoryCondition("is_not_empty", Absent, "b2"),
                         FactoryCondition("equals", Absent, "b3")>>
  /\ result = FactoryError("missing_value")

\* A request of two valid conditions without value succeeds, values unset.
C13_WitnessSuccess ==
  /\ CreateDone
  /\ args.conditions = <<FactoryCondition("is_empty", Absent, "b2"),
                         FactoryCondition("is_not_empty", Absent, "b3")>>
  /\ ValuesStayUnset

\* The call returned an error and no block.
FailedWithoutBlock == result.outcome = "error" /\ "block" \notin DOMAIN result

\* The position of the first condition that lacks an operator or a targetBlock.
FirstMalformed(cs) ==
  CHOOSE j \in 1..Len(cs) :
    /\ LacksOperatorOrTarget(cs[j])
    /\ \A k \in 1..(j - 1) : ~LacksOperatorOrTarget(cs[k])

\* C14 as stated: whenever at least one condition of the list lacks an
\* operator or a targetBlock, whatever its position and whatever the other
\* conditions, the call fails with the invalid-condition error and returns no
\* block.
C14_InvalidConditionError ==
  (CreateDone
     /\ \E j \in 1..Len(args.conditions) : LacksOperatorOrTarget(args.conditions[j]))
    => (result = FactoryError("invalid_condition") /\ FailedWithoutBlock)

\* C14 amended: whenever at least one condition of the list lacks an operator
\* or a targetBlock, whatever its position, the call fails and returns no
\* block; the error is the invalid-condition error when no condition before
\* the first such condition lacks a required value.
C14_InvalidConditionErrorUnlessEarlierValueError ==
  (CreateDone
     /\ \E j \in 1..Len(args.conditions) : LacksOperatorOrTarget(args.conditions[j]))
    => /\ FailedWithoutBlock
       /\ (\A k \in 1..(FirstMalformed(args.conditions) - 1) :
             ~LacksRequiredValue(args.conditions[k]))
            => result = FactoryError("invalid_condition")

\* C14 witness: a valid condition followed by one without targetBlock; the
\* call fails with the invalid-condition error.
C14_Witness ==
  /\ CreateDone
  /\ args.conditions = <<FactoryCondition("equals", "A", "b2"),
                         FactoryCondition("equals", "A", Absent)>>
  /\ result = FactoryError("invalid_condition")

\* C15: on success the factory returns a LOGIC_JUMP block whose conditions
\* list has the length and the order of the input, each entry carrying
\* field = triggerField, the operator and the value of the input condition and
\* jumpTo = its targetBlock; defaultJumpTo is defaultTarget when given and null
\* otherwise, and logicType is the given logicType or simple_branch.
C15_BlockMirrorsInput ==
  (CreateDone /\ result.outcome = "created") =>
    LET p == result.block.payload IN
      /\ result.block.type = LOGIC_JUMP
      /\ p.triggerField = args.triggerField
      /\ Len(p.conditions) = Len(args.conditions)
      /\ \A j \in 1..Len(args.conditions) :
           /\ p.conditions[j].field = args.triggerField
           /\ p.conditions[j].operator = args.conditions[j].operator
           /\ p.conditions[j].value = args.conditions[j].value
           /\ p.conditions[j].jumpTo = args.conditions[j].targetBlock
      /\ p.defaultJumpTo = args.defaultTarget
      /\ p.logicType = (IF args.logicType = Absent THEN "simple_branch"
                        ELSE args.logicType)

\* C15 witness: two conditions with different operators and targets, a
\* default target and no logicType; the block mirrors them.
C15_Witness ==
  /\ CreateDone
  /\ args = FactoryArgs("b1", <<FactoryCondition("equals", "A", "b2"),
                                FactoryCondition("is_empty", Absent, "b3")>>,
                        "b4", Absent)
  /\ result.outcome = "created"
  /\ result.block.payload.conditions[2].jumpTo = "b3"
  /\ result.block.payload.defaultJumpTo = "b4"
  /\ result.block.payload.logicType = "simple_branch"

\* C16: in any sequence of calls, calls made within the same clock tick
\* included, the identifier of the block returned by a successful call differs
\* from the identifier returned by every other call.
C16_IdentifiersNeverRepeat ==
  \A i, j \in 1..Len(issued) : i # j => issued[i] # issued[j]

RECURSIVE SeqOfSet(_)
SeqOfSet(S) ==
  IF S = {} THEN <<>>
  ELSE LET x == CHOOSE y \in S : TRUE IN <<x>> \o SeqOfSet(S \ {x})

\* The ids a factory request refers to: its triggerField, the targetBlock of
\* every condition and its defaultTarget when given.
ReferencedIds(a) ==
  {a.triggerField}
    \cup {a.conditions[j].targetBlock : j \in 1..Len(a.conditions)}
    \cup (IF Truthy(a.defaultTarget) THEN {a.defaultTarget} ELSE {})

\* A block array made of one input block for each id the request refers to,
\* followed by the block the factory returned.
RoundTripArray(a, b) ==
  [k \in 1..Cardinality(ReferencedIds(a)) |->
     FlowBlock(SeqOfSet(ReferencedIds(a))[k], INPUT_TEXT, FALSE, NoPayload)]
    \o <<b>>

\* C17: the block returned by a successful call, placed in a block array that
\* also holds its triggerField block, every condition's targetBlock and its
\* defaultTarget, makes validate_form_logic_flow report no referential-integrity
\* issue (every issue of that validator is one).
C17_RoundTripHasNoIssue ==
  (CreateDone /\ result.outcome = "created") =>
    LET report == validateFormLogicFlow(RoundTripArray(args, result.block)) IN
      /\ report.outcome = "report"
      /\ report.issues = <<>>
      /\ report.status = "VALID"

\* C17 witness: a created block with two conditions on different targets and a
\* default target; the validator sees the logic block and four input blocks,
\* while the same array without the input blocks is reported INVALID.
C17_Witness ==
  /\ CreateDone
  /\ result.outcome = "created"
  /\ Len(args.conditions) = 2
  /\ args.conditions[1].targetBlock # args.conditions[2].targetBlock
  /\ Truthy(args.defaultTarget)
  /\ LET report == validateFormLogicFlow(RoundTripArray(args, result.block)) IN
       /\ report.totalBlocks = 5
       /\ report.logicBlocks = 1
       /\ report.status = "VALID"
  /\ validateFormLogicFlow(<<result.block>>).status = "INVALID"

\* The option set has a triggerValue and a non-empty options list.
ValidOptionSet(s) == Truthy(s.triggerValue) /\ s.hasOptions /\ Len(s.options) > 0

\* The request carries N >= 1 option sets, all of them valid.
AllSetsValid(a) ==
  /\ a.hasSets
  /\ Len(a.conditionalOptionSets) >= 1
  /\ \A k \in 1..Len(a.conditionalOptionSets) : ValidOptionSet(a.conditionalOptionSets[k])

\* C18: for N >= 1 valid option sets the generator returns exactly N question
\* blocks, one per set in input order, and exactly N-1 routing logic blocks,
\* one for each set index i > 0 (in order) and none for index 0.
C18_OneQuestionPerSet ==
  (DynamicDone /\ AllSetsValid(args)) =>
    LET sets == args.conditionalOptionSets
        N == Len(sets)
    IN /\ result.outcome = "created"
       /\ Len(result.questionBlocks) = N
       /\ result.totalQuestionBlocks = N
       /\ \A k \in 1..N :
            LET q == result.questionBlocks[k].payload IN
              /\ q.dynamicContext.variantIndex = k - 1
              /\ q.dynamicContext.triggerValue = sets[k].triggerValue
              /\ Len(q.options) = Len(sets[k].options)
              /\ \A o \in 1..Len(q.options) : q.options[o].text = sets[k].options[o].text
       /\ Len(result.logicBlocks) = N - 1
       /\ result.totalLogicBlocks = N - 1
       /\ \A k \in 1..(N - 1) :
            result.logicBlocks[k].payload.questionContext.variant = k + 1

\* C18 witness: three valid option sets with different shapes; three question
\* blocks and two routing blocks come back.
C18_Witness ==
  /\ DynamicDone
  /\ AllSetsValid(args)
  /\ Len(args.conditionalOptionSets) = 3
  /\ args.conditionalOptionSets[1].triggerValue # args.conditionalOptionSets[2].triggerValue
  /\ Len(args.conditionalOptionSets[3].options) = 2
  /\ result.outcome = "created"
  /\ Len(result.questionBlocks) = 3
  /\ Len(result.logicBlocks) = 2

\* C19: every routing logic block the generator returns has exactly one
\* condition, whose operator is contains whatever the questionType, whose
\* value is the triggerValue of its option set, whose jumpTo is the id of the
\* question variant generated for the same set index, and whose field is the
\* given triggerField.
C19_RoutingUsesContains ==
  (DynamicDone /\ result.outcome = "created") =>
    \A k \in 1..Len(result.logicBlocks) :
      LET p == result.logicBlocks[k].payload
          n == p.questionContext.variant
      IN /\ result.logicBlocks[k].type = LOGIC_JUMP
         /\ Len(p.conditions) = 1
         /\ p.conditions[1].operator = "contains"
         /\ p.conditions[1].value = args.conditionalOptionSets[n].triggerValue
         /\ p.conditions[1].jumpTo = result.questionBlocks[n].uuid
         /\ result.questionBlocks[n].payload.dynamicContext.variantIndex = n - 1
         /\ p.conditions[1].field = args.triggerField

\* C19 witness: an INPUT_DROPDOWN request of three sets whose second and third
\* triggerValues differ; the second routing block routes "y" to variant 3.
C19_Witness ==
  /\ DynamicDone
  /\ args.questionType = INPUT_DROPDOWN
  /\ result.outcome = "created"
  /\ Len(result.logicBlocks) = 2
  /\ args.conditionalOptionSets[2].triggerValue = "x"
  /\ args.conditionalOptionSets[3].triggerValue = "y"
  /\ result.logicBlocks[2].payload.conditions[1].operator = "contains"
  /\ result.logicBlocks[2].payload.conditions[1].value = "y"
  /\ result.logicBlocks[2].payload.conditions[1].jumpTo = result.questionBlocks[3].uuid

\* C20: the generator fails with an error outcome, and returns no question
\* block and no logic block, when conditionalOptionSets is (absent or) empty or
\* when any set at any index lacks triggerValue or has an absent or empty
\* options list, even if all earlier sets were valid and already processed.
C20_InvalidSetFailsWhole ==
  (DynamicDone
     /\ (\/ ~args.hasSets
         \/ Len(args.conditionalOptionSets) = 0
         \/ \E k \in 1..Len(args.conditionalOptionSets) :
              ~ValidOptionSet(args.conditionalOptionSets[k])))
    => /\ result.outcome = "error"
       /\ "questionBlocks" \notin DOMAIN result
       /\ "logicBlocks" \notin DOMAIN result

\* C20 witness: two valid option sets followed by one with an empty options
\* list; the call fails on option set 3.
C20_Witness ==
  /\ DynamicDone
  /\ Len(args.conditionalOptionSets) = 3
  /\ ValidOptionSet(args.conditionalOptionSets[1])
  /\ ValidOptionSet(args.conditionalOptionSets[2])
  /\ Truthy(args.conditionalOptionSets[3].triggerValue)
  /\ args.conditionalOptionSets[3].hasOptions
  /\ args.conditionalOptionSets[3].options = <<>>
  /\ result = DynamicError("missing_options", 3)

\* C21: a block array in which two blocks share the same id is rejected with
\* an error: the handler produces no report for it (a report would rest on an
\* id index in which one of the two blocks has replaced the other).
C21_DuplicateIdRejected ==
  (FlowDone /\ ~DistinctUuids(blocks)) => result.outcome = "error"

\* The report the invocation's tool returns when run alone on its arguments.
ReportAlone(call) ==
  IF call.tool = FLOW THEN validateFormLogicFlow(call.blocks)
  ELSE validateMultipleChoiceLogic(call.triggerQuestion, call.conditionalLogic)

\* C22: the validators never modify the collections they receive and keep no
\* state between invocations: in every interleaving of several validations,
\* each invocation still holds the arguments as submitted and, once finished,
\* has returned the report it returns when run alone on the same input.
C22_ValidationsAreIndependent ==
  \A c \in DOMAIN calls :
    /\ <<calls[c].blocks, calls[c].triggerQuestion, calls[c].conditionalLogic>>
         = calls[c].submitted
    /\ calls[c].phase = "done" => calls[c].report = ReportAlone(calls[c])

\* C22 witness: a flow validation has finished with an INVALID report while a
\* choice validation on another input, begun before, is still between two of
\* its sections with an issue in its frame.
C22_Witness ==
  /\ DOMAIN calls = 1..2
  /\ calls[1].tool = FLOW
  /\ calls[1].phase = "done"
  /\ calls[1].report.outcome = "report"
  /\ calls[1].report.status = "INVALID"
  /\ calls[2].tool = CHOICE
  /\ calls[2].phase = "respond"
  /\ Len(frames[2].issues) > 0

\* C23: in every report (ids pairwise distinct), the block named by the
\* defaultJumpTo of a logic block that the traversal has reached gets no
\* unreachable warning, also when that logic block has no conditions list.
C23_DefaultEdgeFollowed ==
  (FlowDone /\ result.outcome = "report" /\ DistinctUuids(blocks)) =>
    \A i \in 1..Len(blocks) :
      (/\ HasLogicPayload(blocks[i])
       /\ blocks[i].uuid \in ReachableBlocks(blocks)
       /\ Truthy(blocks[i].payload.defaultJumpTo))
        => ~Has(result.warnings,
                Warning("unreachable", blocks[i].payload.defaultJumpTo))

\* Every edge of the array: sequential, conditional and default.
AllEdges(bs) == SequentialEdges(bs) \cup ConditionalEdges(bs) \cup DefaultEdges(bs)

\* The cycle warnings of a report, as the set of their roots.
CircularRoots(r) ==
  {r.warnings[k].block : k \in {n \in 1..Len(r.warnings) : r.warnings[n].kind = "circular"}}

\* C24: the cycle probe follows only conditional edges and walks every root
\* with a visited set of its own: an array (ids pairwise distinct) whose loops
\* are all closed through a default edge or through the sequential order, none
\* through conditional edges alone, gets no cycle warning, and a root is warned
\* exactly when the walk from that root alone meets an id twice.
C24_OnlyConditionalLoopsWarned ==
  FlowDone =>
    /\ (/\ DistinctUuids(blocks)
        /\ \E i \in 1..Len(blocks) : OnCycle(blocks[i].uuid, AllEdges(blocks))
        /\ \A i \in 1..Len(blocks) :
             ~OnCycle(blocks[i].uuid, ConditionalEdges(blocks)))
         => CircularRoots(result) = {}
    /\ result.outcome = "report" =>
         \A i \in 1..Len(blocks) :
           IsLogicJump(blocks[i]) =>
             (blocks[i].uuid \in CircularRoots(result)
                <=> checkCircular(BlockMap(blocks), blocks[i].uuid, {}).found)

\* C25: a tool call whose name is not one of the registered tools is rejected
\* with error code MethodNotFound and the message 'Unknown tool: <name>', not
\* with any other error code.
C25_UnknownToolIsMethodNotFound ==
  (pc = "done" /\ tool \notin RegisteredTools) =>
    /\ result.outcome = "mcp_error"
    /\ result.code = "MethodNotFound"
    /\ result.message = "Unknown tool: " \o tool

\* All ids of a generator result, one entry per id: question blocks, routing
\* blocks and the options of every question block.
RECURSIVE OptionIdsFrom(_, _)
OptionIdsFrom(qbs, k) ==
  IF k > Len(qbs) THEN <<>>
  ELSE [o \in 1..Len(qbs[k].payload.options) |-> qbs[k].payload.options[o].uuid]
         \o OptionIdsFrom(qbs, k + 1)

ResultIds(r) ==
  [k \in 1..Len(r.questionBlocks) |-> r.questionBlocks[k].uuid]
    \o [k \in 1..Len(r.logicBlocks) |-> r.logicBlocks[k].uuid]
    \o OptionIdsFrom(r.questionBlocks, 1)

\* C26: within one generator result all question-block ids, routing-block ids
\* and option ids are pairwise distinct; every variant's provenance names the
\* same base id, which is the id of variant 0, and its variantIndex equals its
\* 0-based position in conditionalOptionSets.
C26_IdsDistinctWithinResult ==
  (DynamicDone /\ result.outcome = "created") =>
    LET ids == ResultIds(result) IN
      /\ \A i, j \in 1..Len(ids) : i # j => ids[i] # ids[j]
      /\ result.baseQuestionUuid = result.questionBlocks[1].uuid
      /\ \A k \in 1..Len(result.questionBlocks) :
           LET ctx == result.questionBlocks[k].payload.dynamicContext IN
             /\ ctx.baseQuestion = result.questionBlocks[1].uuid
             /\ ctx.variantIndex = k - 1
             /\ ctx.triggerValue = args.conditionalOptionSets[k].triggerValue
      /\ \A k \in 1..Len(result.logicBlocks) :
           result.logicBlocks[k].payload.questionContext.baseQuestion
             = result.questionBlocks[1].uuid

\* C26 witness: three variants, the third with two options: three question
\* ids, two routing ids and at least four option ids, the last variant being
\* derived from the base id.
C26_Witness ==
  /\ DynamicDone
  /\ result.outcome = "created"
  /\ Len(result.questionBlocks) = 3
  /\ Len(result.logicBlocks) = 2
  /\ Len(result.questionBlocks[3].payload.options) = 2
  /\ Len(ResultIds(result)) >= 9
  /\ result.questionBlocks[3].uuid = result.baseQuestionUuid \o "-variant-3"
  /\ result.questionBlocks[3].payload.options[2].uuid
       = result.baseQuestionUuid \o "-variant-3-opt-2"

NoRepeat(seq) == \A i, j \in 1..Len(seq) : i # j => seq[i] # seq[j]

\* C27: for every block array, arrays whose conditional and default edges
\* form cycles or self-loops included, the handler terminates with a report,
\* and the reachability traversal and every per-root cycle walk visit each
\* block id at most once.
C27_TerminatesWithReport ==
  FlowDone =>
    /\ result.outcome = "report"
    /\ Len(blocks) > 0 =>
         LET added == traverseBlocksLog(BlockMap(blocks), blocks[1].uuid, <<>>) IN
           /\ NoRepeat(added)
           /\ {added[k] : k \in 1..Len(added)} = ReachableBlocks(blocks)
    /\ \A i \in 1..Len(blocks) :
         IsLogicJump(blocks[i]) =>
           LET walk == checkCircularLog(BlockMap(blocks), blocks[i].uuid, <<>>) IN
             /\ NoRepeat(walk.added)
             /\ walk.found = checkCircular(BlockMap(blocks), blocks[i].uuid, {}).found

\* C28: for every non-empty block array with pairwise distinct ids, the report
\* satisfies reachableBlocks + (number of unreachable warnings) = totalBlocks,
\* with reachableBlocks >= 1 and the first block never named in an unreachable
\* warning.
C28_ReachablePlusUnreachableIsTotal ==
  (FlowDone /\ result.outcome = "report" /\ Len(blocks) > 0
     /\ DistinctUuids(blocks)) =>
    LET unreachable ==
          {k \in 1..Len(result.warnings) : result.warnings[k].kind = "unreachable"}
    IN /\ result.reachableBlocks + Cardinality(unreachable) = result.totalBlocks
       /\ result.totalBlocks = Len(blocks)
       /\ result.reachableBlocks >= 1
       /\ \A k \in unreachable : result.warnings[k].block # blocks[1].uuid

\* C28 witness: two blocks with distinct ids, the second one unreachable:
\* reachableBlocks 1, one unreachable warning, totalBlocks 2.
C28_Witness ==
  /\ FlowDone
  /\ result.outcome = "report"
  /\ Len(blocks) = 2
  /\ DistinctUuids(blocks)
  /\ result.reachableBlocks = 1
  /\ result.totalBlocks = 2
  /\ Has(result.warnings, Warning("unreachable", blocks[2].uuid))

\* C29: for every block array the tool schema accepts (each block has uuid
\* and type, payload optional), a LOGIC_JUMP block without payload included,
\* the handler returns a validation report with status VALID or INVALID, not
\* an error outcome.
C29_SchemaAcceptedGetsReport ==
  FlowDone =>
    /\ result.outcome # "error"
    /\ result.status \in {"VALID", "INVALID"}

\* The trigger block followed by every question block and every routing block
\* of a generator result.
GeneratedArray(a, r) ==
  <<FlowBlock(a.triggerField, INPUT_TEXT, FALSE, NoPayload)>>
    \o r.questionBlocks \o r.logicBlocks

\* C30: every routing block the generator returns targets the id of a question
\* block returned by the same call, and the trigger block together with all
\* returned question blocks and routing blocks passes validate_form_logic_flow
\* with zero issues.
C30_GeneratorRoundTripHasNoIssue ==
  (DynamicDone /\ result.outcome = "created") =>
    /\ \A k \in 1..Len(result.logicBlocks) :
         \E q \in 1..Len(result.questionBlocks) :
           result.logicBlocks[k].payload.conditions[1].jumpTo
             = result.questionBlocks[q].uuid
    /\ LET report == validateFormLogicFlow(GeneratedArray(args, result)) IN
         /\ report.outcome = "report"
         /\ report.issues = <<>>
         /\ report.status = "VALID"

\* C30 witness: three INPUT_DROPDOWN variants; the validator sees six blocks,
\* two of them logic blocks, and reports VALID, while the routing blocks
\* without the question blocks are reported INVALID.
C30_Witness ==
  /\ DynamicDone
  /\ args.questionType = INPUT_DROPDOWN
  /\ result.outcome = "created"
  /\ Len(result.questionBlocks) = 3
  /\ LET report == validateFormLogicFlow(GeneratedArray(args, result)) IN
       /\ report.totalBlocks = 6
       /\ report.logicBlocks = 2
       /\ report.inputBlocks = 4
       /\ report.status = "VALID"
  /\ validateFormLogicFlow(
       <<FlowBlock(args.triggerField, INPUT_TEXT, FALSE, NoPayload)>>
         \o result.logicBlocks).status = "INVALID"

====
